---- MODULE Spec2Model ----
(***************************************************************************)
(* Session/history state machine of the writing assistant (src/app.py).    *)
(*                                                                         *)
(* A text is a sequence of chunks; a chunk is a string.  The chunks " ",   *)
(* "\n" and "\n\n" are whitespace, every other chunk holds visible text.   *)
(* One action is one script run of the page, started by one user event,    *)
(* except for the generation call, whose start and end are two steps.      *)
(***************************************************************************)
EXTENDS Integers, Sequences, FiniteSets, TLC

VARIABLES
    current_mode,   \* st.session_state.current_mode
    messages,       \* st.session_state.messages
    draft,          \* st.session_state.draft
    history,        \* st.session_state.history
    processing,     \* st.session_state.processing
    pc,             \* "idle", or "generating" while generate_content is outstanding
    request,        \* the prompt handed to generate_content, <<>> when none is outstanding
    submit_button,  \* the Submit control on the page: "absent", "enabled" or "disabled"
    run_end,        \* where the last script run ended: completed, or aborted by an exception
    now,            \* the minute datetime.now() showed when it was last read
    log,            \* every entry add_to_history has recorded, newest first
    last_op         \* the handler that ran last, with the index and the text it was given

vars == <<current_mode, messages, draft, history, processing, pc, request,
          submit_button, run_end, now, log, last_op>>

\* ------------------------------------------------------------------ bounds

\* successful submissions in a run from the empty history
MaxLog == 1
\* successful submissions in a run from a history one short of full
MaxNew == 2

\* --------------------------------------------------------------- constants

HistoryCap == 20

None == "None"

Whitespace == {" ", "\n", "\n\n", "\t"}

GRAMMAR_SYSTEM_PROMPT == <<"\n", "You are a professional grammar editor.", "\n">>
CONTENT_SYSTEM_PROMPT == <<"\n", "You are a professional content creator.", "\n">>
SYNONYM_SYSTEM_PROMPT == <<"\n", "You are a vocabulary enhancer.", "\n">>

\* show_mode_selection: the titles of the three mode buttons
ModeTitles ==
    { <<"Grammar", " ", "Correction">>,
      <<"Content", " ", "Creation">>,
      <<"Synonym", " ", "Suggestions">> }

\* show_grammar_tools: the four patterns, "{text}" is the replacement field
GrammarTools ==
    { <<"Check punctuation in:", "\n", "{text}">>,
      <<"Improve clarity of:", "\n", "{text}">>,
      <<"Simplify this text:", "\n", "{text}">>,
      <<"Make this more formal:", "\n", "{text}">> }

\* show_content_templates: the three prompts
ContentTemplates ==
    { <<"Write a blog post about: [topic]">>,
      <<"Write a professional email about: [subject]">>,
      <<"Write a report on: [topic]">> }

\* ------------------------------------------------------------ text helpers

\* str.lower() on the words the mode titles start with
Lower(w) ==
    CASE w = "Grammar" -> "grammar"
      [] w = "Content" -> "content"
      [] w = "Synonym" -> "synonym"
      [] OTHER -> w

\* str.split(): the visible chunks, whitespace dropped
RECURSIVE Split(_)
Split(text) ==
    IF text = <<>> THEN <<>>
    ELSE IF Head(text) \in Whitespace THEN Split(Tail(text))
    ELSE <<Head(text)>> \o Split(Tail(text))

RECURSIVE LStrip(_)
LStrip(text) ==
    IF text = <<>> THEN <<>>
    ELSE IF Head(text) \in Whitespace THEN LStrip(Tail(text))
    ELSE text

RECURSIVE RStrip(_)
RStrip(text) ==
    IF text = <<>> THEN <<>>
    ELSE IF text[Len(text)] \in Whitespace THEN RStrip(SubSeq(text, 1, Len(text) - 1))
    ELSE text

\* str.strip()
Strip(text) == RStrip(LStrip(text))

\* template.format(text=...): every "{text}" field replaced by the text
RECURSIVE FormatDropsText(_, _)
FormatDropsText(template, text) ==
    IF template = <<>> THEN <<>>
    ELSE IF Head(template) = "{text}" THEN FormatDropsText(Tail(template), text)
    ELSE <<Head(template)>> \o FormatDropsText(Tail(template), text)

RECURSIVE Format(_, _)
Format(template, text) ==
    IF template = <<>> THEN <<>>
    ELSE IF Head(template) = "{text}" THEN text \o Format(Tail(template), text)
    ELSE <<Head(template)>> \o Format(Tail(template), text)

\* title.split()[0].lower()
ModeOfTitle(title) == Lower(Split(title)[1])

\* f"I'm your {title} assistant. How can I help?"
Greeting(title) == <<"I'm your ">> \o title \o <<" assistant. How can I help?">>

\* datetime.strftime("%Y-%m-%d %H:%M") of a time given in minutes
strftime(minute) == <<"2026-11-01 00:", minute>>

Message(role, content) == [role |-> role, content |-> content]

\* the prompt process_submission builds for a mode
SystemPrompt(mode) ==
    IF mode = "grammar" THEN GRAMMAR_SYSTEM_PROMPT
    ELSE IF mode = "content" THEN CONTENT_SYSTEM_PROMPT
    ELSE SYNONYM_SYSTEM_PROMPT

Prompt(mode, text) == SystemPrompt(mode) \o <<"\n\n">> \o text

Min(a, b) == IF a < b THEN a ELSE b

\* ---------------------------------------------------------- history store

Entry(input_text, output_text, mode, timestamp) ==
    [input |-> input_text, output |-> output_text, mode |-> mode, timestamp |-> timestamp]

add_to_history_keeps_oldest(hist, input_text, output_text, mode, timestamp) ==
    LET inserted == <<Entry(input_text, output_text, mode, timestamp)>> \o hist
    IN  SubSeq(inserted, Len(inserted) - Min(Len(inserted), HistoryCap) + 1, Len(inserted))

add_to_history(hist, input_text, output_text, mode, timestamp) ==
    LET inserted == <<Entry(input_text, output_text, mode, timestamp)>> \o hist
    IN  SubSeq(inserted, 1, Min(Len(inserted), HistoryCap))

\* ---------------------------------------------------------- session state

session ==
    [current_mode |-> current_mode, messages |-> messages, draft |-> draft,
     history |-> history, processing |-> processing]

reset_to_home_keeps_transcript(s) ==
    [s EXCEPT !.current_mode = None, !.draft = <<>>]

reset_to_home_keeps_draft(s) ==
    [s EXCEPT !.current_mode = None, !.messages = <<>>]

reset_to_home(s) ==
    [s EXCEPT !.current_mode = None, !.messages = <<>>, !.draft = <<>>]

\* the two messages a completed submission adds to the transcript
extend_messages_reply_only(msgs, text, reply) ==
    msgs \o <<Message("assistant", reply)>>

extend_messages_drops_prior(msgs, text, reply) ==
    <<Message("user", text), Message("assistant", reply)>>

extend_messages(msgs, text, reply) ==
    msgs \o <<Message("user", text), Message("assistant", reply)>>

\* ------------------------------------------------------------- page render

Completed == [at |-> "none", idx |-> 0]
Aborted(at, idx) == [at |-> at, idx |-> idx]

\* the handler a script run executed, the index and the text it was given
Op(name, idx, text) == [op |-> name, idx |-> idx, text |-> text]

\* the Submit button as show_chat_interface renders it
SubmitRendered(mode, busy) ==
    IF mode = None THEN "absent" ELSE IF busy THEN "disabled" ELSE "enabled"

\* a script run that reaches the end of main()
RunsToEnd ==
    /\ run_end' = Completed
    /\ submit_button' = SubmitRendered(current_mode', processing')

\* what the page shows after the last run
HistoryItemShown(idx) == run_end.at = "history" => idx <= run_end.idx
MainShown == run_end.at # "history"
MessageShown(idx) == MainShown /\ (run_end.at = "message" => idx <= run_end.idx)
InputShown == run_end.at = "none" /\ current_mode # None

Init ==
    /\ current_mode = None
    /\ messages = <<>>
    /\ draft = <<>>
    /\ history = <<>>
    /\ processing = FALSE
    /\ pc = "idle"
    /\ request = <<>>
    /\ submit_button = "absent"
    /\ run_end = Completed
    /\ now = 0
    /\ log = <<>>
    /\ last_op = Op("init", 0, <<>>)

\* ----------------------------------------------------------------- inputs

\* what the user types into the text area
TypedTexts == { <<" ">>, <<"a">> }

\* the drafts a grammar tool is pressed on: empty or typed, not yet wrapped
Unwrapped == TypedTexts \cup { <<>> }

\* the copy buttons the user presses: the newest history entry's, the latest message's
Newest(hist) == IF hist = <<>> THEN {} ELSE {1}
Latest(msgs) == IF msgs = <<>> THEN {} ELSE {Len(msgs)}

\* the minutes datetime.now() shows during a run
Clock == {0, 1}

\* response.text of the generation call
Responses == { <<"R1">> }

\* the run from a history one short of full: one mode, one tool, one typed text
ModeTitlesFull == { <<"Grammar", " ", "Correction">> }
GrammarToolsFull == { <<"Improve clarity of:", "\n", "{text}">> }
TypedTextsFull == { <<"a">> }

\* ---------------------------------------------------------------- actions

\* show_mode_selection: one of the three mode buttons, then st.rerun()
SelectMode(title) ==
    /\ pc = "idle"
    /\ MainShown
    /\ current_mode = None
    /\ current_mode' = ModeOfTitle(title)
    /\ messages' = <<Message("assistant", Greeting(title))>>
    /\ last_op' = Op("select_mode", 0, title)
    /\ UNCHANGED <<draft, history, processing, pc, request, now, log>>
    /\ RunsToEnd

\* show_home_button: reset_to_home(), which ends in st.rerun()
Home ==
    /\ pc = "idle"
    /\ MainShown
    /\ current_mode # None
    /\ LET s == reset_to_home(session)
       IN  /\ current_mode' = s.current_mode
           /\ messages' = s.messages
           /\ draft' = s.draft
           /\ history' = s.history
           /\ processing' = s.processing
    /\ last_op' = Op("home", 0, <<>>)
    /\ UNCHANGED <<pc, request, now, log>>
    /\ RunsToEnd

\* show_grammar_tools: one of the four tool buttons, then st.rerun()
GrammarTool(template) ==
    /\ pc = "idle"
    /\ MainShown
    /\ current_mode = "grammar"
    /\ draft \in Unwrapped
    /\ draft' = Format(template, draft)
    /\ last_op' = Op("grammar_tool", 0, template)
    /\ UNCHANGED <<current_mode, messages, history, processing, pc, request, now, log>>
    /\ RunsToEnd

\* show_content_templates: one of the three template buttons, then st.rerun()
ContentTemplate(prompt) ==
    /\ pc = "idle"
    /\ MainShown
    /\ current_mode = "content"
    /\ draft' = prompt
    /\ last_op' = Op("content_template", 0, prompt)
    /\ UNCHANGED <<current_mode, messages, history, processing, pc, request, now, log>>
    /\ RunsToEnd

\* show_history_sidebar: the replay button of entry idx, then st.rerun()
HistoryReplay(idx) ==
    /\ pc = "idle"
    /\ idx \in 1..Len(history)
    /\ HistoryItemShown(idx)
    /\ draft' = history[idx].input
    /\ current_mode' = history[idx].mode
    /\ last_op' = Op("replay", idx, <<>>)
    /\ UNCHANGED <<messages, history, processing, pc, request, now, log>>
    /\ RunsToEnd

\* show_history_sidebar: the copy button of entry idx, pyperclip.copy returns
HistoryCopy(idx) ==
    /\ pc = "idle"
    /\ idx \in 1..Len(history)
    /\ HistoryItemShown(idx)
    /\ last_op' = Op("copy_history", idx, history[idx].output)
    /\ UNCHANGED <<current_mode, messages, draft, history, processing, pc, request, now, log>>
    /\ RunsToEnd

\* show_history_sidebar: the copy button of entry idx, pyperclip.copy raises;
\* nothing catches it, the script run ends inside the sidebar loop
HistoryCopyRaises(idx) ==
    /\ pc = "idle"
    /\ idx \in 1..Len(history)
    /\ HistoryItemShown(idx)
    /\ last_op' = Op("copy_history_raises", idx, history[idx].output)
    /\ run_end' = Aborted("history", idx)
    /\ submit_button' = "absent"
    /\ UNCHANGED <<current_mode, messages, draft, history, processing, pc, request, now, log>>

\* show_chat_interface: the copy button of assistant message idx, pyperclip.copy returns
MessageCopy(idx) ==
    /\ pc = "idle"
    /\ current_mode # None
    /\ idx \in 1..Len(messages)
    /\ messages[idx].role = "assistant"
    /\ MessageShown(idx)
    /\ last_op' = Op("copy_message", idx, messages[idx].content)
    /\ UNCHANGED <<current_mode, messages, draft, history, processing, pc, request, now, log>>
    /\ RunsToEnd

\* show_chat_interface: the copy button of assistant message idx, pyperclip.copy
\* raises; the script run ends inside the message loop, before the text area
MessageCopyRaises(idx) ==
    /\ pc = "idle"
    /\ current_mode # None
    /\ idx \in 1..Len(messages)
    /\ messages[idx].role = "assistant"
    /\ MessageShown(idx)
    /\ last_op' = Op("copy_message_raises", idx, messages[idx].content)
    /\ run_end' = Aborted("message", idx)
    /\ submit_button' = "absent"
    /\ UNCHANGED <<current_mode, messages, draft, history, processing, pc, request, now, log>>

\* show_chat_interface: the text area returns a text that differs from the draft
EditDraft(text) ==
    /\ pc = "idle"
    /\ InputShown
    /\ text # draft
    /\ draft' = text
    /\ last_op' = Op("edit", 0, text)
    /\ UNCHANGED <<current_mode, messages, history, processing, pc, request, now, log>>
    /\ RunsToEnd

\* show_chat_interface: Submit pressed on a draft that strips to nothing
SubmitBlank ==
    /\ pc = "idle"
    /\ InputShown
    /\ submit_button = "enabled"
    /\ Strip(draft) = <<>>
    /\ last_op' = Op("submit_blank", 0, <<>>)
    /\ UNCHANGED <<current_mode, messages, draft, history, processing, pc, request, now, log>>
    /\ RunsToEnd

\* show_chat_interface and process_submission up to the generation call
SubmitClick ==
    /\ pc = "idle"
    /\ InputShown
    /\ submit_button = "enabled"
    /\ Strip(draft) # <<>>
    /\ processing' = TRUE
    /\ request' = Prompt(current_mode, draft)
    /\ pc' = "generating"
    /\ last_op' = Op("submit", 0, <<>>)
    /\ UNCHANGED <<current_mode, messages, draft, history, submit_button, run_end, now, log>>

\* process_submission after generate_content returned and response.text is
\* reply; add_to_history reads the clock, which shows minute; a run records
\* at most maxLog entries
GenerationReturns(reply, minute, maxLog) ==
    /\ pc = "generating"
    /\ Len(log) < maxLog
    /\ minute >= now
    /\ now' = minute
    /\ messages' = extend_messages(messages, draft, reply)
    /\ history' = add_to_history(history, draft, reply, current_mode, strftime(minute))
    /\ log' = <<Entry(draft, reply, current_mode, strftime(minute))>> \o log
    /\ draft' = <<>>
    /\ processing' = FALSE
    /\ request' = <<>>
    /\ pc' = "idle"
    /\ last_op' = Op("submit_ok", 0, reply)
    /\ UNCHANGED current_mode
    /\ RunsToEnd

\* process_submission when generate_content raises ("generate_raises") or when
\* reading response.text raises ("text_raises"): except, finally, st.rerun()
GenerationFails_clears_draft(kind) ==
    /\ pc = "generating"
    /\ draft' = <<>>
    /\ processing' = FALSE
    /\ request' = <<>>
    /\ pc' = "idle"
    /\ last_op' = Op(kind, 0, <<>>)
    /\ UNCHANGED <<current_mode, messages, history, now, log>>
    /\ RunsToEnd

GenerationFails_resets_mode(kind) ==
    /\ pc = "generating"
    /\ current_mode' = None
    /\ messages' = <<>>
    /\ processing' = FALSE
    /\ request' = <<>>
    /\ pc' = "idle"
    /\ last_op' = Op(kind, 0, <<>>)
    /\ UNCHANGED <<draft, history, now, log>>
    /\ RunsToEnd

GenerationFails(kind) ==
    /\ pc = "generating"
    /\ processing' = FALSE
    /\ request' = <<>>
    /\ pc' = "idle"
    /\ last_op' = Op(kind, 0, <<>>)
    /\ UNCHANGED <<current_mode, messages, draft, history, now, log>>
    /\ RunsToEnd

FailureKinds == {"generate_raises", "text_raises"}

Next ==
    \/ \E title \in ModeTitles : SelectMode(title)
    \/ Home
    \/ \E template \in GrammarTools : GrammarTool(template)
    \/ \E prompt \in ContentTemplates : ContentTemplate(prompt)
    \/ \E idx \in 1..HistoryCap : HistoryReplay(idx)
    \/ \E idx \in Newest(history) : HistoryCopy(idx)
    \/ \E idx \in Newest(history) : HistoryCopyRaises(idx)
    \/ \E idx \in Latest(messages) : MessageCopy(idx)
    \/ \E idx \in Latest(messages) : MessageCopyRaises(idx)
    \/ \E text \in TypedTexts \cup {<<>>} : EditDraft(text)
    \/ SubmitBlank
    \/ SubmitClick
    \/ \E reply \in Responses, minute \in Clock : GenerationReturns(reply, minute, MaxLog)
    \/ \E kind \in FailureKinds : GenerationFails(kind)

Spec == Init /\ [][Next]_vars

\* ------------------------------------------- a history one short of full

PriorCount == HistoryCap - 1

\* the history after PriorCount grammar submissions "1", "2", ... answered by
\* "R1" in minute 0, newest first
PriorHistory ==
    [i \in 1..PriorCount |->
        Entry(<<ToString(PriorCount + 1 - i)>>, <<"R1">>, "grammar", strftime(0))]

\* the home page of a session that has made those submissions: the state that
\* Init reaches by selecting grammar mode, typing and submitting "1" to "19",
\* and pressing Home
InitFull ==
    /\ current_mode = None
    /\ messages = <<>>
    /\ draft = <<>>
    /\ history = PriorHistory
    /\ processing = FALSE
    /\ pc = "idle"
    /\ request = <<>>
    /\ submit_button = "absent"
    /\ run_end = Completed
    /\ now = 0
    /\ log = PriorHistory
    /\ last_op = Op("home", 0, <<>>)

NextFull ==
    \/ \E title \in ModeTitlesFull : SelectMode(title)
    \/ Home
    \/ \E template \in GrammarToolsFull : GrammarTool(template)
    \/ \E idx \in {1, Len(history)} : HistoryReplay(idx)
    \/ \E idx \in Newest(history) : HistoryCopy(idx)
    \/ \E idx \in Newest(history) : HistoryCopyRaises(idx)
    \/ \E idx \in Latest(messages) : MessageCopy(idx)
    \/ \E idx \in Latest(messages) : MessageCopyRaises(idx)
    \/ \E text \in TypedTextsFull : EditDraft(text)
    \/ SubmitBlank
    \/ SubmitClick
    \/ \E reply \in Responses, minute \in Clock :
            GenerationReturns(reply, minute, PriorCount + MaxNew)
    \/ \E kind \in FailureKinds : GenerationFails(kind)

SpecFull == InitFull /\ [][NextFull]_vars

\* ----------------------------------------------------------------- claims

Modes == {"grammar", "content", "synonym"}

\* sub occurs in text as a run of consecutive chunks
Contains(sub, text) ==
    \E i \in 0..(Len(text) - Len(sub)) : SubSeq(text, i + 1, i + Len(sub)) = sub

GrammarGreeting == Message("assistant", Greeting(<<"Grammar", " ", "Correction">>))

\* the transcript starts with the greeting of a mode other than the current one
ForeignGreeting ==
    /\ messages # <<>>
    /\ \E title \in ModeTitles :
          /\ messages[1] = Message("assistant", Greeting(title))
          /\ ModeOfTitle(title) # current_mode

\* C1: the history never holds more than HistoryCap entries and is exactly the
\* newest min(n, HistoryCap) of the n entries recorded so far, newest first.
HistoryIsNewestOfLog ==
    /\ Len(history) <= HistoryCap
    /\ history = SubSeq(log, 1, Min(Len(log), HistoryCap))

HistoryOverflowed ==
    /\ last_op.op = "submit_ok"
    /\ Len(log) > HistoryCap
    /\ Len(history) = HistoryCap

\* C2: a submission that succeeds with reply R empties the draft, appends the
\* user message and the assistant message R to the transcript, puts the entry
\* {draft, R, mode} in front of the history, which grows by one or, when full,
\* stays at HistoryCap with its last entry dropped, and leaves processing false.
SubmitSuccessEffect ==
    [][last_op'.op = "submit_ok" =>
        /\ pc = "generating"
        /\ Strip(draft) # <<>>
        /\ draft' = <<>>
        /\ messages' = messages \o
              <<Message("user", draft), Message("assistant", last_op'.text)>>
        /\ Len(history') = IF Len(history) < HistoryCap THEN Len(history) + 1
                           ELSE HistoryCap
        /\ history'[1].input = draft
        /\ history'[1].output = last_op'.text
        /\ history'[1].mode = current_mode
        /\ \A i \in 2..Len(history') : history'[i] = history[i - 1]
        /\ processing' = FALSE]_vars

SubmitSucceededOnFullHistory ==
    /\ last_op.op = "submit_ok"
    /\ Len(log) > HistoryCap
    /\ draft = <<>>
    /\ ~processing

\* C3: a submission whose generation call fails (the call raises, or reading the
\* response text raises) leaves transcript, history, draft and mode as they were
\* when Submit was pressed and ends with processing false; the start of the call
\* changes none of them either.
FailedSubmitChangesNothing ==
    [][/\ last_op'.op \in FailureKinds =>
            /\ pc = "generating"
            /\ processing
            /\ UNCHANGED <<messages, history, draft, current_mode>>
            /\ processing' = FALSE
            /\ pc' = "idle"
       /\ last_op'.op = "submit" =>
            UNCHANGED <<messages, history, draft, current_mode>>]_vars

FailedSubmitHappened ==
    /\ last_op.op = "text_raises"
    /\ Strip(draft) # <<>>
    /\ history # <<>>
    /\ Len(messages) = 1
    /\ ~processing

\* C4, as amended: when grammar mode has been chosen with the mode button and
\* no submission has completed since, the first successful submission of draft
\* D with reply R leaves the transcript [greeting, {user, D}, {assistant, R}],
\* History[0].input = D and the draft empty.
FirstGrammarSubmitKeepsGreeting ==
    [][(/\ current_mode = "grammar"
        /\ messages = <<GrammarGreeting>>
        /\ last_op'.op = "submit_ok") =>
        /\ messages' = <<GrammarGreeting, Message("user", draft),
                         Message("assistant", last_op'.text)>>
        /\ history'[1].input = draft
        /\ draft' = <<>>]_vars

\* C4, as claimed: that transcript is exactly [{user, D}, {assistant, R}].
FirstGrammarSubmitIsTwoMessages ==
    [][(/\ current_mode = "grammar"
        /\ messages = <<GrammarGreeting>>
        /\ last_op'.op = "submit_ok") =>
        /\ messages' = <<Message("user", draft), Message("assistant", last_op'.text)>>
        /\ history'[1].input = draft
        /\ draft' = <<>>]_vars

FirstGrammarSubmitDone ==
    /\ last_op.op = "submit_ok"
    /\ current_mode = "grammar"
    /\ Len(messages) = 3
    /\ messages[1] = GrammarGreeting
    /\ messages[2].role = "user"
    /\ history[1].input = messages[2].content

\* C5, as amended: a set mode changes only by Home, which unsets it, or by a
\* history replay, which sets it to the replayed entry's mode; template
\* application, draft edits, copies and submissions never change it.
ModeChangesOnlyByHomeOrReplay ==
    [][(current_mode # None /\ current_mode' # current_mode) =>
        \/ last_op'.op = "home" /\ current_mode' = None
        \/ /\ last_op'.op = "replay"
           /\ last_op'.idx \in 1..Len(history)
           /\ current_mode' = history[last_op'.idx].mode]_vars

\* C5, as claimed: a set mode changes only by Home.
ModeChangesOnlyByHome ==
    [][(current_mode # None /\ current_mode' # current_mode) =>
        last_op'.op = "home"]_vars

ReplaySwitchedMode ==
    /\ last_op.op = "replay"
    /\ current_mode # None
    /\ ForeignGreeting

\* C6: what reset_to_home makes of a session s
ResetContract(s) ==
    LET r == reset_to_home(s)
    IN  /\ r.current_mode = None
        /\ r.messages = <<>>
        /\ r.draft = <<>>
        /\ r.history = s.history
        /\ r.processing = s.processing
        /\ reset_to_home(r) = r

\* C6: reset_to_home applied to any reachable session unsets the mode, empties
\* transcript and draft, keeps history and processing, and applied to its own
\* result changes nothing; the Home button does exactly that.
ResetClearsSessionKeepsHistory ==
    /\ []ResetContract(session)
    /\ [][last_op'.op = "home" =>
            /\ current_mode # None
            /\ session' = reset_to_home(session)
            /\ current_mode' = None
            /\ messages' = <<>>
            /\ draft' = <<>>
            /\ UNCHANGED <<history, processing>>]_vars

HomePressedAfterSubmission ==
    /\ last_op.op = "home"
    /\ current_mode = None
    /\ messages = <<>>
    /\ draft = <<>>
    /\ history # <<>>

\* C7: the transcript is non-empty only while a mode is set, and every history
\* entry carries a set mode.
TranscriptOnlyWithMode ==
    /\ current_mode = None => messages = <<>>
    /\ \A i \in 1..Len(history) : history[i].mode \in Modes

ReplayedFromHome ==
    /\ last_op.op = "replay"
    /\ current_mode \in Modes
    /\ messages = <<>>

\* C8, as claimed: while processing is true the Submit control on the page is
\* disabled.
SubmitDisabledWhileProcessing ==
    processing => submit_button = "disabled"

\* C9, as claimed: a clipboard copy that raises is caught where it is made, and
\* the script run it happens in reaches its end.
CopyFailureIsCaught ==
    last_op.op \in {"copy_history_raises", "copy_message_raises"} =>
        run_end = Completed

\* C10: what a template button leaves alone
TemplateFrame ==
    /\ pc = "idle"
    /\ pc' = "idle"
    /\ UNCHANGED <<current_mode, messages, history, processing, request, log>>

\* C10, as amended: a grammar tool replaces the draft by its pattern with the
\* draft substituted, so the previous draft is contained in the new one; a
\* content template replaces the draft by its fixed prompt, whatever the draft
\* was; neither changes anything else nor starts a generation call.
TemplateEffect ==
    [][/\ last_op'.op = "grammar_tool" =>
            /\ last_op'.text \in GrammarTools
            /\ draft' = Format(last_op'.text, draft)
            /\ Contains(draft, draft')
            /\ Len(draft') = Len(draft) + 2
            /\ TemplateFrame
       /\ last_op'.op = "content_template" =>
            /\ draft' = last_op'.text
            /\ draft' \in ContentTemplates
            /\ TemplateFrame]_vars

\* C10, as claimed: after any template button the previous draft is contained
\* in the new draft.
TemplateKeepsPreviousDraft ==
    [][last_op'.op \in {"grammar_tool", "content_template"} =>
            /\ Contains(draft, draft')
            /\ TemplateFrame]_vars

GrammarToolWrappedDraft ==
    /\ last_op.op = "grammar_tool"
    /\ Len(draft) = 3
    /\ draft[3] = "a"
====
